---- MODULE Spec2Model ----
(***************************************************************************)
(* Model of rcnsh/wheres-my-professor, wmp-backend/python:                  *)
(*   populate.py   - FaceRegistrationCloud: setup_schema, extract_embedding,*)
(*                   register_person, register_batch, get_stats             *)
(*   embeddings.py - the /extract-embedding and /health endpoints           *)
(*                                                                         *)
(* File names are sequences of character codes (ASCII), so that str.upper,  *)
(* glob pattern matching and the ordering of sorted() are computed as the   *)
(* code computes them.  Python dicts are records, lists are sequences.      *)
(***************************************************************************)
EXTENDS Naturals, Sequences, FiniteSets

VARIABLES
    env,     \* the platform the process runs on: [caseSensitive : BOOLEAN]
    coll,    \* the remote collection "FaceEmbedding": [exists, records, config]
    last,    \* the call of populate.py's API that has just returned: its
             \* arguments and what it returned; NoCall once the caller went on
    disk,    \* embeddings.py: the temporary files that exist on disk
    req      \* embeddings.py: the in-flight requests of /extract-embedding

vars == <<env, coll, last, disk, req>>

NoCall == [op |-> "none"]

----------------------------------------------------------------------------
(* Bounds of the model.                                                     *)

\* the largest number of files in one photo directory
MaxFiles == 3
\* the largest number of entries of the mapping given to register_batch
MaxPeople == 2
\* register_person / register_batch are called on a collection that holds
\* at most this many records
MaxExisting == 1
\* the largest number of temporary files on disk when a request arrives
MaxTmpFiles == 2
\* the number of requests the server handles at a time
MaxRequests == 2

----------------------------------------------------------------------------
(* Strings.                                                                 *)

\* str.upper / str.lower on one character code
Upper(c) == IF c \in 97..122 THEN c - 32 ELSE c
Lower(c) == IF c \in 65..90 THEN c + 32 ELSE c

upper(s) == [i \in 1..Len(s) |-> Upper(s[i])]
lower(s) == [i \in 1..Len(s) |-> Lower(s[i])]

\* lexicographic order of two strings by code point (str.__lt__)
StrLess(a, b) ==
    \E i \in 1..(Len(a) + 1) :
        /\ \A j \in 1..(i - 1) : j <= Len(b) /\ a[j] = b[j]
        /\ \/ i = Len(a) + 1 /\ Len(b) >= i
           \/ i <= Len(a) /\ i <= Len(b) /\ a[i] < b[i]

EndsWith(s, suf) ==
    /\ Len(s) >= Len(suf)
    /\ SubSeq(s, Len(s) - Len(suf) + 1, Len(s)) = suf

----------------------------------------------------------------------------
(* populate.py: image discovery, register_person lines 103-110.            *)

\* valid_extensions = {'.jpg', '.jpeg', '.png', '.bmp', '.webp'}
valid_extensions ==
    { <<46, 106, 112, 103>>,        \* .jpg
      <<46, 106, 112, 101, 103>>,   \* .jpeg
      <<46, 112, 110, 103>>,        \* .png
      <<46, 98, 109, 112>>,         \* .bmp
      <<46, 119, 101, 98, 112>> }   \* .webp

\* Two of the orders in which "for ext in valid_extensions" may visit the set
\* (a Python set of strings iterates in an order fixed by the hash seed) and
\* in which os.scandir may list a folder.
Orders ==
    { [exts |-> << <<46, 106, 112, 103>>, <<46, 106, 112, 101, 103>>,
                   <<46, 112, 110, 103>>, <<46, 98, 109, 112>>,
                   <<46, 119, 101, 98, 112>> >>,
       descending |-> FALSE],
      [exts |-> << <<46, 119, 101, 98, 112>>, <<46, 98, 109, 112>>,
                   <<46, 112, 110, 103>>, <<46, 106, 112, 101, 103>>,
                   <<46, 106, 112, 103>> >>,
       descending |-> TRUE] }

\* pathlib's flavour: PosixPath matches and compares names as they are,
\* WindowsPath case-folds them (re.IGNORECASE in compile_pattern, and
\* casefold_parts in the comparison key).
normcase(s, caseSensitive) == IF caseSensitive THEN s ELSE lower(s)

\* fnmatch of a file name against the pattern f"*{ext}"
fnmatch(name, ext, caseSensitive) ==
    EndsWith(normcase(name, caseSensitive), normcase(ext, caseSensitive))

\* Path.__lt__: the order sorted() puts two paths of one folder in
PathLess(p, q, caseSensitive) ==
    StrLess(normcase(p.name, caseSensitive), normcase(q.name, caseSensitive))

\* os.scandir: the entries of a folder, in ascending or descending name order
RECURSIVE scandir(_, _)
scandir(folder, descending) ==
    IF folder = {} THEN <<>>
    ELSE LET f == CHOOSE x \in folder :
                      \A y \in folder \ {x} :
                          IF descending THEN StrLess(y.name, x.name)
                                        ELSE StrLess(x.name, y.name)
         IN  <<f>> \o scandir(folder \ {f}, descending)

\* folder.glob(f"*{ext}"), listing being what os.scandir(folder) yields
glob(listing, ext, caseSensitive) ==
    SelectSeq(listing, LAMBDA f : fnmatch(f.name, ext, caseSensitive))

\* lines 105-108: image_paths after the loop over valid_extensions
RECURSIVE Collect(_, _, _)
Collect(listing, exts, caseSensitive) ==
    IF exts = <<>> THEN <<>>
    ELSE glob(listing, Head(exts), caseSensitive)
         \o glob(listing, upper(Head(exts)), caseSensitive)
         \o Collect(listing, Tail(exts), caseSensitive)

\* sorted(): a stable sort by Path.__lt__
RECURSIVE InsertSorted(_, _, _)
InsertSorted(p, s, caseSensitive) ==
    IF s = <<>> THEN <<p>>
    ELSE IF PathLess(p, Head(s), caseSensitive)
         THEN <<p>> \o s
         ELSE <<Head(s)>> \o InsertSorted(p, Tail(s), caseSensitive)

RECURSIVE sorted(_, _)
sorted(s, caseSensitive) ==
    IF s = <<>> THEN <<>>
    ELSE InsertSorted(s[Len(s)], sorted(SubSeq(s, 1, Len(s) - 1), caseSensitive),
                      caseSensitive)

\* s[:n] for n >= 0
Slice(s, n) == SubSeq(s, 1, IF n < Len(s) THEN n ELSE Len(s))

\* line 110: image_paths = sorted(image_paths)[:max_photos]
DiscoverImages(folder, max_photos, caseSensitive, exts, descending) ==
    Slice(sorted(Collect(scandir(folder, descending), exts, caseSensitive),
                 caseSensitive),
          max_photos)

----------------------------------------------------------------------------
(* Exceptions and the two external capabilities.                            *)

NoExc == [class |-> "none", msg |-> <<>>]

\* isinstance(e, cls) for the classes the code names in its except clauses;
\* every other class raised here derives from Exception directly.
IsInstance(e, cls) ==
    /\ e.class # "none"
    /\ (cls = "Exception" \/ e.class = cls)

\* "fragment in str(e)"
InStr(fragment, e) == \E i \in 1..Len(e.msg) : e.msg[i] = fragment

\* What an image file holds, as far as DeepFace can tell.
\*   faces     : detection finds Len(faces) >= 1 faces, with these embeddings
\*   noface    : detection finds no face
\*   empty     : the capability returns an empty list
\*   badvalue  : the capability rejects the input with another ValueError
\*   fault     : the capability fails with an error that is no ValueError
ImgFaces(embeddings) == [kind |-> "faces", faces |-> embeddings]
ImgNoFace == [kind |-> "noface", faces |-> <<>>]
ImgEmpty == [kind |-> "empty", faces |-> <<>>]
ImgBadValue == [kind |-> "badvalue", faces |-> <<>>]
ImgFault == [kind |-> "fault", faces |-> <<>>]

\* DeepFace.represent(img_path, model_name, detector_backend="retinaface",
\*                    enforce_detection=True, align=True)
Represent(img) ==
    CASE img.kind = "faces" ->
            [exc |-> NoExc,
             result |-> [i \in 1..Len(img.faces) |-> [embedding |-> img.faces[i]]]]
      [] img.kind = "empty" ->
            [exc |-> NoExc, result |-> <<>>]
      [] img.kind = "noface" ->
            [exc |-> [class |-> "ValueError",
                      msg |-> <<"Face could not be detected", " in the image">>],
             result |-> <<>>]
      [] img.kind = "badvalue" ->
            [exc |-> [class |-> "ValueError", msg |-> <<"Invalid image input">>],
             result |-> <<>>]
      [] img.kind = "fault" ->
            [exc |-> [class |-> "RuntimeError", msg |-> <<"cannot decode image">>],
             result |-> <<>>]

\* The schema setup_schema creates (lines 52-63)
ConfiguredSchema ==
    [name |-> "FaceEmbedding",
     properties |-> {"personName"},
     vectorizer |-> "none",
     distance_metric |-> "cosine",
     ef_construction |-> 128,
     max_connections |-> 64]

\* A schema left by some other program under the same collection name
OtherSchema ==
    [name |-> "FaceEmbedding",
     properties |-> {"personName", "photo"},
     vectorizer |-> "none",
     distance_metric |-> "l2-squared",
     ef_construction |-> 128,
     max_connections |-> 32]

NoCollection == [exists |-> FALSE, records |-> <<>>, config |-> ConfiguredSchema]
FreshCollection == [exists |-> TRUE, records |-> <<>>, config |-> ConfiguredSchema]

\* collection.data.insert(properties={"personName": person_name}, vector=embedding)
\* against the store: it appends one record, or raises and stores nothing
\* (the store is unreachable or rejects the object, or the collection is absent).
Insert(c, person_name, embedding, fault) ==
    IF fault \/ ~c.exists
    THEN [exc |-> [class |-> "WeaviateBaseError", msg |-> <<"insert failed">>],
          coll |-> c]
    ELSE [exc |-> NoExc,
          coll |-> [c EXCEPT !.records =
                        Append(@, [personName |-> person_name, vector |-> embedding])]]

----------------------------------------------------------------------------
(* populate.py: setup_schema, lines 43-70.                                  *)

\* fault: the call to the store that fails ("none", "exists", "delete", "create")
StoreFaults == {"none", "exists", "delete", "create"}

\* mutant: lines 47-49 left out, create is called on the existing collection
\* and the store refuses it
setup_schemaWithoutDelete(c, fault) ==
    IF fault = "exists"
    THEN [raised |-> TRUE, coll |-> c]
    ELSE IF fault = "create" \/ c.exists
    THEN [raised |-> TRUE, coll |-> c]
    ELSE [raised |-> FALSE, coll |-> FreshCollection]

setup_schema(c, fault) ==
    IF fault = "exists"
    THEN [raised |-> TRUE, coll |-> c]
    ELSE IF c.exists /\ fault = "delete"
    THEN [raised |-> TRUE, coll |-> c]
    ELSE IF fault = "create"
    THEN [raised |-> TRUE, coll |-> NoCollection]
    ELSE [raised |-> FALSE, coll |-> FreshCollection]

\* get_stats, lines 192-200
get_stats(c) ==
    IF c.exists
    THEN [raised |-> FALSE, stats |-> [total_embeddings |-> Len(c.records)]]
    ELSE [raised |-> TRUE, stats |-> [total_embeddings |-> 0]]

----------------------------------------------------------------------------
(* populate.py: extract_embedding, lines 72-89.                             *)

None == [isNone |-> TRUE, vector |-> 0]
Some(v) == [isNone |-> FALSE, vector |-> v]

extract_embedding(img) ==
    LET r == Represent(img)
    IN  IF IsInstance(r.exc, "Exception")
        THEN None
        ELSE IF Len(r.result) > 0
             THEN Some(r.result[1].embedding)
             ELSE None

----------------------------------------------------------------------------
(* populate.py: register_person, lines 91-152.                              *)

\* line 122
batch_size == 10

\* mutant: the clause of line 144 written "except ValueError as e"
CatchesOnlyValueError(e) == IsInstance(e, "ValueError")

\* "except Exception as e" of line 144
CatchesImageError(e) == IsInstance(e, "Exception")

\* The state of the loops of lines 124-146: the results dict, the collection,
\* the number of insert calls made so far in the run, the images handed to
\* extract_embedding, and whether an exception left the loop.
LoopState(c, inserts) ==
    [results |-> [successful |-> 0, failed |-> 0, errors |-> <<>>],
     coll |-> c, inserts |-> inserts, attempted |-> <<>>, raised |-> FALSE]

\* mutant: line 132 left out, an image without embedding is skipped uncounted
ProcessImageSkipsUncounted(st, img_path, person_name, faults) ==
    LET embedding == extract_embedding(img_path.img)
        st1 == [st EXCEPT !.attempted = Append(@, img_path.name)]
    IN  IF embedding.isNone
        THEN st1
        ELSE LET n == st.inserts + 1
                 ins == Insert(st.coll, person_name, embedding.vector, n \in faults)
                 st2 == [st1 EXCEPT !.inserts = n, !.coll = ins.coll]
             IN  IF ins.exc = NoExc
                 THEN [st2 EXCEPT !.results.successful = @ + 1]
                 ELSE [st2 EXCEPT !.results.failed = @ + 1,
                                  !.results.errors =
                                      Append(@, [item |-> img_path.name,
                                                 message |-> ins.exc.msg])]

\* mutant: line 142 moved before the insert of line 135, an image is counted
\* as successful before it is stored
ProcessImageCountsBeforeInsert(st, img_path, person_name, faults) ==
    LET embedding == extract_embedding(img_path.img)
        st1 == [st EXCEPT !.attempted = Append(@, img_path.name)]
    IN  IF embedding.isNone
        THEN [st1 EXCEPT !.results.failed = @ + 1]
        ELSE LET n == st.inserts + 1
                 ins == Insert(st.coll, person_name, embedding.vector, n \in faults)
                 st2 == [st1 EXCEPT !.inserts = n, !.coll = ins.coll,
                                    !.results.successful = @ + 1]
             IN  IF ins.exc = NoExc
                 THEN st2
                 ELSE [st2 EXCEPT !.results.errors =
                                      Append(@, [item |-> img_path.name,
                                                 message |-> ins.exc.msg])]

\* lines 128-146, one image.  faults: the insert calls of the run (numbered
\* from 1) that the store fails.
ProcessImage(st, img_path, person_name, faults) ==
    LET embedding == extract_embedding(img_path.img)
        st1 == [st EXCEPT !.attempted = Append(@, img_path.name)]
    IN  IF embedding.isNone
        THEN [st1 EXCEPT !.results.failed = @ + 1]
        ELSE LET n == st.inserts + 1
                 ins == Insert(st.coll, person_name, embedding.vector, n \in faults)
                 st2 == [st1 EXCEPT !.inserts = n, !.coll = ins.coll]
             IN  IF ins.exc = NoExc
                 THEN [st2 EXCEPT !.results.successful = @ + 1]
                 ELSE IF CatchesImageError(ins.exc)
                 THEN [st2 EXCEPT !.results.failed = @ + 1,
                                  !.results.errors =
                                      Append(@, [item |-> img_path.name,
                                                 message |-> ins.exc.msg])]
                 ELSE [st2 EXCEPT !.raised = TRUE]

\* line 127: for img_path in batch
RECURSIVE ProcessBatch(_, _, _, _)
ProcessBatch(st, batch, person_name, faults) ==
    IF batch = <<>> \/ st.raised THEN st
    ELSE ProcessBatch(ProcessImage(st, Head(batch), person_name, faults),
                      Tail(batch), person_name, faults)

\* line 124: for i in range(0, len(image_paths), batch_size)
RECURSIVE ProcessBatches(_, _, _, _, _)
ProcessBatches(st, image_paths, i, person_name, faults) ==
    IF i >= Len(image_paths) \/ st.raised THEN st
    ELSE LET hi == IF i + batch_size < Len(image_paths)
                   THEN i + batch_size ELSE Len(image_paths)
         IN  ProcessBatches(
                 ProcessBatch(st, SubSeq(image_paths, i + 1, hi), person_name, faults),
                 image_paths, i + batch_size, person_name, faults)

\* A folder path as the file system resolves it.
Folder(path, files) == [path |-> path, exists |-> TRUE, files |-> files]
MissingFolder(path) == [path |-> path, exists |-> FALSE, files |-> {}]

\* What the process cannot choose: the platform, the iteration order of the
\* set of extensions, the order of directory listings, the store's faults.
World(caseSensitive, exts, descending, faults) ==
    [caseSensitive |-> caseSensitive, exts |-> exts,
     descending |-> descending, faults |-> faults]

\* line 101: the dict returned for a folder that does not exist
FolderNotFound(folder) ==
    [error |-> <<"Folder not found: ", folder.path>>, successful |-> 0, failed |-> 0]

\* mutant: line 113 returning the plain empty results
NoImagesFoundWithoutError == [successful |-> 0, failed |-> 0, errors |-> <<>>]

\* line 113: the dict returned when no image was selected
NoImagesFound ==
    [error |-> <<"No images found">>, successful |-> 0, failed |-> 0, errors |-> <<>>]

\* register_person(person_name, image_folder, max_photos), called when the
\* collection is c and the run has made `inserts` insert calls.
register_person(person_name, folder, max_photos, c, inserts, w) ==
    IF ~folder.exists
    THEN [result |-> FolderNotFound(folder),
          coll |-> c, inserts |-> inserts, raised |-> FALSE,
          image_paths |-> <<>>, attempted |-> <<>>]
    ELSE LET image_paths == DiscoverImages(folder.files, max_photos,
                                           w.caseSensitive, w.exts, w.descending)
         IN  IF image_paths = <<>>
             THEN [result |-> NoImagesFound,
                   coll |-> c, inserts |-> inserts, raised |-> FALSE,
                   image_paths |-> image_paths, attempted |-> <<>>]
             ELSE LET st == ProcessBatches(LoopState(c, inserts), image_paths, 0,
                                           person_name, w.faults)
                  IN  [result |-> st.results,
                       coll |-> st.coll, inserts |-> st.inserts,
                       raised |-> st.raised,
                       image_paths |-> image_paths, attempted |-> st.attempted]

----------------------------------------------------------------------------
(* populate.py: register_batch, lines 154-190.                              *)

\* lines 171-180, one entry of the mapping
BatchStep(bt, entry, max_photos_per_person, w) ==
    LET r == register_person(entry.person_name, entry.folder,
                             max_photos_per_person, bt.coll, bt.inserts, w)
        call == [person_name |-> entry.person_name, result |-> r.result,
                 image_paths |-> r.image_paths, attempted |-> r.attempted]
    IN  IF r.raised
        THEN [bt EXCEPT !.coll = r.coll, !.inserts = r.inserts,
                        !.calls = Append(@, call), !.raised = TRUE]
        ELSE [bt EXCEPT !.coll = r.coll, !.inserts = r.inserts,
                        !.calls = Append(@, call),
                        !.total.photos = @ + r.result.successful + r.result.failed,
                        !.total.successful = @ + r.result.successful,
                        !.total.failed = @ + r.result.failed]

\* line 171: for person_name, folder in people.items()
RECURSIVE BatchLoop(_, _, _, _)
BatchLoop(bt, people, max_photos_per_person, w) ==
    IF people = <<>> \/ bt.raised THEN bt
    ELSE BatchLoop(BatchStep(bt, Head(people), max_photos_per_person, w),
                   Tail(people), max_photos_per_person, w)

\* people: the mapping as the sequence of its items, in insertion order
register_batch(people, max_photos_per_person, c, w) ==
    BatchLoop([total |-> [people |-> Len(people), photos |-> 0,
                          successful |-> 0, failed |-> 0],
               coll |-> c, inserts |-> 0, calls |-> <<>>, raised |-> FALSE],
              people, max_photos_per_person, w)

----------------------------------------------------------------------------
(* embeddings.py: extract_embedding, lines 35-73.                           *)

\* line 24
MODEL_NAME == "Facenet512"

\* raise HTTPException(status_code, detail); str() of it is "status: detail"
HTTPException(status_code, detail) ==
    [class |-> "HTTPException", status_code |-> status_code, detail |-> detail,
     msg |-> <<IF status_code = 400 THEN "400: " ELSE "500: ">> \o detail]

\* lines 46-61: the body of the try statement.  It returns a response or
\* raises.
TryBody(img) ==
    LET r == Represent(img)
    IN  IF r.exc # NoExc
        THEN [exc |-> r.exc, response |-> [status |-> 0]]
        ELSE IF Len(r.result) = 0
        THEN [exc |-> HTTPException(400, <<"No face detected">>),
              response |-> [status |-> 0]]
        ELSE [exc |-> NoExc,
              response |-> [status |-> 200,
                            embedding |-> r.result[1].embedding,
                            faces_detected |-> Len(r.result),
                            model_name |-> MODEL_NAME]]

\* lines 63-69: the except clauses, in order.  Each raises an HTTPException,
\* which FastAPI turns into a response of that status.
Handlers(e) ==
    IF IsInstance(e, "ValueError")
    THEN IF InStr("Face could not be detected", e)
         THEN HTTPException(400, <<"No face detected in image">>)
         ELSE HTTPException(400, e.msg)
    ELSE IF IsInstance(e, "Exception")
    THEN HTTPException(500, e.msg)
    ELSE e

\* lines 45-69: what the try statement answers for an image
TryStatement(img) ==
    LET b == TryBody(img)
    IN  IF b.exc = NoExc
        THEN b.response
        ELSE LET h == Handlers(b.exc)
             IN  [status |-> h.status_code, detail |-> h.detail]

\* lines 71-73: finally: if os.path.exists(tmp_path): os.unlink(tmp_path)
Finally(files, tmp_path) ==
    IF tmp_path \in files THEN files \ {tmp_path} ELSE files

\* tempfile.NamedTemporaryFile(delete=False, suffix=".jpg"): a name that
\* no file on disk has
NewTmpName(files) == CHOOSE n \in 1..(Cardinality(files) + 1) : n \notin files

\* An upload: whether reading it from the client and writing it into the
\* temporary file succeeds, and the image it holds.
Uploads ==
    { [transfer |-> "ok", img |-> i] :
          i \in {ImgFaces(<<1>>), ImgFaces(<<2, 1>>), ImgNoFace, ImgEmpty,
                 ImgBadValue, ImgFault} }
    \cup { [transfer |-> t, img |-> ImgEmpty] : t \in {"read_fails", "write_fails"} }

Requests == 1..MaxRequests

Idle == [pc |-> "idle"]

\* Lines 41-42 up to "await image.read()": the file is created, the
\* coroutine waits for the upload.
Begin(r) ==
    /\ req[r].pc \in {"idle", "done"}
    /\ Cardinality(disk) <= MaxTmpFiles
    /\ \E upload \in Uploads :
          LET tmp_path == NewTmpName(disk)
          IN  /\ disk' = disk \cup {tmp_path}
              /\ req' = [req EXCEPT ![r] = [pc |-> "reading", upload |-> upload,
                                            tmp_path |-> tmp_path]]
    /\ UNCHANGED <<env, coll, last>>

\* The rest of the handler, from the end of the await to the response.  An
\* exception in tmp.write(await image.read()) leaves the with statement, which
\* closes the file (delete=False), and the handler: FastAPI answers 500.
Finish(r) ==
    /\ req[r].pc = "reading"
    /\ LET q == req[r]
       IN  IF q.upload.transfer # "ok"
           THEN /\ disk' = disk
                /\ req' = [req EXCEPT ![r] =
                              [pc |-> "done", upload |-> q.upload,
                               tmp_path |-> q.tmp_path,
                               response |-> [status |-> 500,
                                             detail |-> <<"Internal Server Error">>]]]
           ELSE /\ disk' = Finally(disk, q.tmp_path)
                /\ req' = [req EXCEPT ![r] =
                              [pc |-> "done", upload |-> q.upload,
                               tmp_path |-> q.tmp_path,
                               response |-> TryStatement(q.upload.img)]]
    /\ UNCHANGED <<env, coll, last>>

InitService ==
    /\ env = [caseSensitive |-> TRUE]
    /\ coll = NoCollection
    /\ last = NoCall
    /\ disk = {}
    /\ req = [r \in Requests |-> Idle]

NextService == \E r \in Requests : Begin(r) \/ Finish(r)

SpecService == InitService /\ [][NextService]_vars

----------------------------------------------------------------------------
(* The photo folders, people and calls the model draws its inputs from.     *)

File(name, img) == [name |-> name, img |-> img]

Files ==
    { File(<<97, 46, 106, 112, 103>>, ImgFaces(<<1>>)),            \* a.jpg
      File(<<66, 46, 80, 78, 71>>, ImgNoFace),                     \* B.PNG
      File(<<99, 46, 74, 112, 103>>, ImgFaces(<<2>>)),             \* c.Jpg
      File(<<100, 46, 106, 112, 101, 103>>, ImgFaces(<<2, 1>>)),   \* d.jpeg
      File(<<101, 46, 116, 120, 116>>, ImgFaces(<<1>>)),           \* e.txt
      File(<<102, 46, 87, 69, 66, 80>>, ImgFault) }                \* f.WEBP

\* the files of the folders given to register_batch
BatchFiles ==
    { File(<<97, 46, 106, 112, 103>>, ImgFaces(<<1>>)),            \* a.jpg
      File(<<66, 46, 80, 78, 71>>, ImgNoFace) }                    \* B.PNG

Persons == {"Alice", "Bob", "Carol"}

\* the folders a path may resolve to
Folders(path, universe) ==
    {MissingFolder(path)}
    \cup { Folder(path, fs) : fs \in {x \in SUBSET universe : Cardinality(x) <= MaxFiles} }

\* the mappings of at most MaxPeople people, as sequences of items
RECURSIVE Mappings(_)
Mappings(n) ==
    IF n = 0 THEN {<<>>}
    ELSE LET shorter == Mappings(n - 1)
         IN  shorter \cup
             UNION { { Append(m, [person_name |-> p, folder |-> f]) :
                           m \in {x \in shorter : Len(x) = n - 1},
                           f \in Folders(p, BatchFiles) } : p \in Persons }

DistinctKeys(m) ==
    \A i, j \in 1..Len(m) : m[i].person_name = m[j].person_name => i = j

Min(a, b) == IF a < b THEN a ELSE b

\* the most insert calls register_batch(people, max_photos) can make
RECURSIVE MaxInserts(_, _)
MaxInserts(people, max_photos) ==
    IF people = <<>> THEN 0
    ELSE Min(max_photos, Cardinality(Head(people).folder.files))
         + MaxInserts(Tail(people), max_photos)

\* the worlds of a run that makes at most n insert calls
Worlds(caseSensitive, n) ==
    { World(caseSensitive, o.exts, o.descending, faults) :
          o \in Orders, faults \in SUBSET (1..n) }

----------------------------------------------------------------------------
(* The calls of populate.py's API.                                          *)

\* the caller takes the returned value and goes on
Return ==
    /\ last # NoCall
    /\ last' = NoCall
    /\ UNCHANGED <<env, coll, disk, req>>

SetupSchema ==
    /\ last = NoCall
    /\ \E fault \in StoreFaults :
          \E r \in {setup_schema(coll, fault)} :
              /\ coll' = r.coll
              /\ last' = [op |-> "setup_schema", fault |-> fault,
                          existed |-> coll.exists, count |-> Len(coll.records),
                          raised |-> r.raised]
    /\ UNCHANGED <<env, disk, req>>

RegisterPerson ==
    /\ last = NoCall
    /\ Len(coll.records) <= MaxExisting
    /\ \E person_name \in Persons :
          \E folder \in Folders(person_name, Files), max_photos \in 0..MaxFiles :
          \E w \in Worlds(env.caseSensitive,
                           Min(max_photos, Cardinality(folder.files))) :
              \E r \in {register_person(person_name, folder, max_photos, coll, 0, w)} :
                  /\ coll' = r.coll
                  /\ last' = [op |-> "register_person",
                              person_name |-> person_name, folder |-> folder,
                              max_photos |-> max_photos,
                              image_paths |-> r.image_paths,
                              attempted |-> r.attempted,
                              result |-> r.result, raised |-> r.raised]
    /\ UNCHANGED <<env, disk, req>>

RegisterBatch ==
    /\ last = NoCall
    /\ Len(coll.records) <= MaxExisting
    /\ \E people \in {m \in Mappings(MaxPeople) : DistinctKeys(m)},
          max_photos \in 0..MaxFiles :
          \E w \in Worlds(env.caseSensitive,
                           Min(MaxFiles, MaxInserts(people, max_photos))) :
          \E b \in {register_batch(people, max_photos, coll, w)} :
              /\ coll' = b.coll
              /\ last' = [op |-> "register_batch", people |-> people,
                          max_photos |-> max_photos, calls |-> b.calls,
                          total |-> b.total, raised |-> b.raised]
    /\ UNCHANGED <<env, disk, req>>

GetStats ==
    /\ last = NoCall
    /\ LET r == get_stats(coll)
       IN  last' = [op |-> "get_stats", raised |-> r.raised, stats |-> r.stats]
    /\ UNCHANGED <<env, coll, disk, req>>

Init ==
    /\ env \in [caseSensitive : BOOLEAN]
    /\ coll \in {NoCollection, FreshCollection,
                 [exists |-> TRUE, records |-> <<>>, config |-> OtherSchema]}
    /\ last = NoCall
    /\ disk = {}
    /\ req = [r \in Requests |-> Idle]

Next == SetupSchema \/ RegisterPerson \/ GetStats \/ Return

Spec == Init /\ [][Next]_vars

NextBatch == SetupSchema \/ RegisterBatch \/ GetStats \/ Return

SpecBatch == Init /\ [][NextBatch]_vars

----------------------------------------------------------------------------
(* The extraction endpoint (embeddings.py), under SpecService.              *)

\* C1: for every call of the endpoint exactly one temporary file is
\* allocated, and on every exit path (success, no face, a fault at any point
\* after the file is created, the reading and writing of the upload
\* included) that file is no longer on disk when the call returns.
C1_TmpFileReleasedOnEveryExit ==
    [][\A r \in Requests :
          (req[r].pc = "reading" /\ req'[r].pc = "done")
              => /\ req'[r].tmp_path = req[r].tmp_path
                 /\ req[r].tmp_path \notin disk']_vars

\* C2: the endpoint classifies failures in exactly two ways: no face (the
\* capability raises its detection failure or returns an empty list) is
\* answered 400 and never with a vector; every other failure of extraction
\* (other ValueErrors included) is answered 500 and never 400.
C2_TwoFailureClasses ==
    \A r \in Requests :
        (req[r].pc = "done" /\ req[r].upload.transfer = "ok")
            => /\ req[r].upload.img.kind \in {"noface", "empty"}
                    => /\ req[r].response.status = 400
                       /\ "embedding" \notin DOMAIN req[r].response
               /\ req[r].upload.img.kind \in {"badvalue", "fault"}
                    => req[r].response.status = 500

----------------------------------------------------------------------------
(* register_person and setup_schema (populate.py), under Spec.              *)

Names(paths) == [i \in 1..Len(paths) |-> paths[i].name]

\* C3: for every call of register_person on an existing directory, whatever
\* the outcome of each image and their order, successful + failed equals the
\* number of images selected after sorting and truncation; every selected
\* image is handled once and counted once.
C3_CountsCoverSelectedImages ==
    (last.op = "register_person" /\ last.folder.exists)
        => /\ ~last.raised
           /\ last.attempted = Names(last.image_paths)
           /\ last.result.successful + last.result.failed = Len(last.image_paths)

\* a call on a POSIX platform with a stored image, a failed extraction and a
\* failed insert
C3_Witness ==
    /\ last.op = "register_person"
    /\ env.caseSensitive
    /\ last.folder.exists
    /\ Len(last.image_paths) = 3
    /\ last.result.successful = 1
    /\ last.result.failed = 2
    /\ Len(last.result.errors) = 1

\* C4: every failure of an image, of any kind (no face, extraction error,
\* storage error), increments failed and appends one error record naming the
\* image: the number of error records equals failed.
C4_EveryFailureHasAnErrorRecord ==
    (last.op = "register_person" /\ "errors" \in DOMAIN last.result)
        => Len(last.result.errors) = last.result.failed

\* the embeddings register_person may store for the images it selected
FirstFaces(paths) ==
    { paths[i].img.faces[1] : i \in {j \in 1..Len(paths) : paths[j].img.kind = "faces"} }

\* C5: register_person adds to the collection exactly `successful` records,
\* after the records it held, each with personName = identity and the vector
\* of a selected image; nothing is stored for an image counted as failed, and
\* what earlier images stored stays when later images fail.
C5_CollectionGainsSuccessfulRecords ==
    [][(last = NoCall /\ last'.op = "register_person")
          => LET old == Len(coll.records)
                 new == Len(coll'.records)
             IN  /\ new = old + last'.result.successful
                 /\ SubSeq(coll'.records, 1, old) = coll.records
                 /\ coll'.exists = coll.exists
                 /\ coll'.config = coll.config
                 /\ \A i \in (old + 1)..new :
                       /\ coll'.records[i].personName = last'.person_name
                       /\ coll'.records[i].vector \in FirstFaces(last'.image_paths)]_vars

\* two images stored after a record the collection held, and the last image
\* of the run failed
C5_Witness ==
    /\ last.op = "register_person"
    /\ env.caseSensitive
    /\ last.result.successful = 2
    /\ last.result.failed = 1
    /\ Len(coll.records) = 3
    /\ last.image_paths[Len(last.image_paths)].img.kind # "faces"

\* a file name with an extension of the allow-list, in any mix of cases
HasImageExt(name) == \E ext \in valid_extensions : EndsWith(lower(name), ext)

\* C6, as stated: an existing directory with no matching image gives
\* successful = 0 and failed = 0 with no error indication; a missing directory
\* gives an explicit error with successful = 0 and failed = 0, returned and
\* not raised.
C6_NoImagesIsNotAnError ==
    /\ (/\ last.op = "register_person"
        /\ last.folder.exists
        /\ \A f \in last.folder.files : ~HasImageExt(f.name))
           => /\ ~last.raised
              /\ last.result.successful = 0 /\ last.result.failed = 0
              /\ "error" \notin DOMAIN last.result
    /\ (last.op = "register_person" /\ ~last.folder.exists)
           => /\ ~last.raised
              /\ last.result.successful = 0 /\ last.result.failed = 0
              /\ "error" \in DOMAIN last.result

\* C6, amended: an existing directory from which no image is selected (it
\* holds no file with an allowed extension, or max_photos is 0) gives
\* {error: "No images found", successful: 0, failed: 0, errors: []}; a missing
\* directory gives {error: "Folder not found: <dir>", successful: 0, failed: 0};
\* both are returned, not raised, and they differ.
C6_NoImagesAndMissingFolderResults ==
    /\ (/\ last.op = "register_person"
        /\ last.folder.exists
        /\ \/ \A f \in last.folder.files : ~HasImageExt(f.name)
           \/ last.max_photos = 0
           \/ last.image_paths = <<>>)
           => /\ ~last.raised
              /\ last.image_paths = <<>>
              /\ last.result = [error |-> <<"No images found">>,
                                successful |-> 0, failed |-> 0, errors |-> <<>>]
              /\ last.result # FolderNotFound(MissingFolder(last.folder.path))
    /\ (last.op = "register_person" /\ ~last.folder.exists)
           => /\ ~last.raised
              /\ last.result = [error |-> <<"Folder not found: ", last.folder.path>>,
                                successful |-> 0, failed |-> 0]

\* a folder that holds a file, none with an allowed extension
C6_Witness ==
    /\ last.op = "register_person"
    /\ last.folder.exists
    /\ last.folder.files # {}
    /\ \A f \in last.folder.files : ~HasImageExt(f.name)
    /\ last.max_photos > 0
    /\ "error" \in DOMAIN last.result

\* C8: setup_schema is idempotent: whether or not the collection exists, and
\* whatever it holds, a call the store serves succeeds and leaves a fresh
\* collection with the configured schema and count() = 0; a second call in
\* succession succeeds too and leaves the same state.
C8_SetupSchemaIdempotent ==
    (last.op = "setup_schema" /\ last.fault = "none")
        => /\ ~last.raised
           /\ coll = [exists |-> TRUE, records |-> <<>>, config |-> ConfiguredSchema]
           /\ get_stats(coll) = [raised |-> FALSE, stats |-> [total_embeddings |-> 0]]
           /\ setup_schema(coll, "none") = [raised |-> FALSE, coll |-> coll]

\* setup_schema returned on a collection that existed and held records
C8_Witness ==
    /\ last.op = "setup_schema"
    /\ last.fault = "none"
    /\ last.existed
    /\ last.count > 0
    /\ ~last.raised

\* C10: register_person selects exactly the first min(max_photos, n) files,
\* in filename order, of the n files whose extension is in the allow-list in
\* any mix of upper and lower case, each at most once.
C10_DiscoverySelectsAllowedExtensions ==
    (last.op = "register_person" /\ last.folder.exists)
        => LET s == last.image_paths
               matching == {f \in last.folder.files : HasImageExt(f.name)}
           IN  /\ Len(s) = Min(last.max_photos, Cardinality(matching))
               /\ \A i \in 1..Len(s) : s[i] \in matching
               /\ \A i, j \in 1..Len(s) :
                     i < j => PathLess(s[i], s[j], env.caseSensitive)
               /\ \A f \in matching :
                     (\A i \in 1..Len(s) : s[i] # f)
                         => \A i \in 1..Len(s) : PathLess(s[i], f, env.caseSensitive)

----------------------------------------------------------------------------
(* register_batch (populate.py), under SpecBatch.                           *)

RECURSIVE SumOver(_, _)
SumOver(calls, key) ==
    IF calls = <<>> THEN 0
    ELSE Head(calls).result[key] + SumOver(Tail(calls), key)

\* the identities for which the value register_batch returns records an error
RecordedErrors(total) ==
    IF "errors" \in DOMAIN total
    THEN {total.errors[i].person_name : i \in 1..Len(total.errors)}
    ELSE {}

\* C7: whichever directories of the mapping exist, register_batch returns
\* people = number of entries, successful and failed = the sums of the
\* per-person results (0 and 0 for a missing directory), and its outcome
\* records an error for every identity whose directory is missing.
C7_BatchTotalsAndMissingFolders ==
    last.op = "register_batch"
        => /\ last.total.people = Len(last.people)
           /\ last.total.successful = SumOver(last.calls, "successful")
           /\ last.total.failed = SumOver(last.calls, "failed")
           /\ \A i \in 1..Len(last.people) :
                 ~last.people[i].folder.exists
                     => /\ last.calls[i].result.successful = 0
                        /\ last.calls[i].result.failed = 0
                        /\ last.people[i].person_name \in RecordedErrors(last.total)

\* C9: register_batch calls register_person once for every entry of the
\* mapping, in mapping order; no failure of one person (missing directory,
\* every image failing extraction, a storage failure) raises out of
\* register_person or keeps a later entry from being processed; within one
\* person every selected image is attempted whatever became of earlier ones.
C9_BatchIsolation ==
    last.op = "register_batch"
        => /\ ~last.raised
           /\ Len(last.calls) = Len(last.people)
           /\ \A i \in 1..Len(last.people) :
                 /\ last.calls[i].person_name = last.people[i].person_name
                 /\ last.calls[i].attempted = Names(last.calls[i].image_paths)
                 \* the selected images do not depend on the order in which
                 \* extensions are visited and folders are listed
                 /\ last.calls[i].image_paths =
                        DiscoverImages(last.people[i].folder.files, last.max_photos,
                                       env.caseSensitive,
                                       (CHOOSE o \in Orders : TRUE).exts, FALSE)

\* on a POSIX platform: the first person's directory is missing, the second
\* person has an image without a face and an image whose insert failed, and
\* was processed all the same
C9_Witness ==
    /\ last.op = "register_batch"
    /\ env.caseSensitive
    /\ Len(last.people) = 2
    /\ ~last.people[1].folder.exists
    /\ Len(last.calls) = 2
    /\ Len(last.calls[2].attempted) = 2
    /\ last.calls[2].result.failed = 2
    /\ Len(last.calls[2].result.errors) = 1

====
